---- MODULE Spec2Model ----
(***************************************************************************)
(* The seat-reservation core of src/api.py: the tables trains and bookings *)
(* of the PostgreSQL store, the booking transaction of book_seat (one      *)
(* step per SQL statement, READ COMMITTED isolation, row lock taken by     *)
(* SELECT ... FOR UPDATE), and the two read paths get_seat_availability    *)
(* and get_booking_details (one SQL statement each).                       *)
(***************************************************************************)
EXTENDS Integers, Sequences, FiniteSets, TLC

\* ------------------------------------------------------------------ bounds
NumReqs == 3       \* requests over the life of a behaviour
MaxTrains == 2     \* rows POST /trains inserts at most
MaxSeats == 2      \* largest total_seats of a train
NumUsers == 2      \* user ids that verify_token hands to the handlers
NumRoutes == 1     \* distinct (source, destination) pairs trains serve
NumSeatNos == 1    \* distinct seat_number values a caller supplies

Reqs == 1..NumReqs
TrainIds == 1..MaxTrains
Users == 1..NumUsers
Routes == 1..NumRoutes
AskedRoutes == 1..(NumRoutes + 1)  \* the last one is served by no train
SeatNos == 1..NumSeatNos
BookingIds == 1..NumReqs

\* ------------------------------------------------------------------- state
VARIABLES
    trains,      \* committed rows of table trains
    bookings,    \* committed rows of table bookings
    booking_seq, \* last value of the sequence behind bookings.id
    rowLock,     \* rowLock[t]: the request whose transaction holds the
                 \* FOR UPDATE lock of trains row t, 0 when nobody does
    pc,          \* pc[p]: the statement request p is at
    req,         \* req[p]: the handler request p calls and its arguments
    train,       \* train[p]: the row fetched at line 206, or NoTrain
    booked_seats,\* booked_seats[p]: the COUNT(*) fetched at line 220
    new_booking, \* new_booking[p]: the row inserted, not yet committed
    exc,         \* exc[p]: the exception caught at line 238, or NoExc
    resp         \* resp[p]: the HTTP response of request p

vars == <<trains, bookings, booking_seq, rowLock, pc, req, train,
          booked_seats, new_booking, exc, resp>>

dbVars == <<trains, bookings, booking_seq, rowLock>>
txVars == <<train, booked_seats, new_booking, exc>>

\* ------------------------------------------------------------------ values
NoTrain == [id |-> 0, total_seats |-> 0]
NoBooking == [id |-> 0, user_id |-> 0, train_id |-> 0, seat_number |-> 0,
              booking_date |-> 0]
NoExc == [kind |-> "none", status_code |-> 0, detail |-> ""]
NoReq == [op |-> "none", user_id |-> 0, train_id |-> 0, seat_number |-> 0,
          booking_id |-> 0, route |-> 0]
NoResp == [status |-> 0, detail |-> "", booking |-> NoBooking, route |-> 0,
           trains |-> {}]

\* the response a handler returns or raises: status code, message, and the
\* body's booking (with the joined train's route) or list of trains
Response(status, detail, b, route, ts) ==
    [status |-> status, detail |-> detail, booking |-> b, route |-> route,
     trains |-> ts]

\* raise HTTPException(status_code=..., detail=...)
HTTPException(status_code, detail) ==
    [kind |-> "HTTPException", status_code |-> status_code, detail |-> detail]

\* line 209
TrainNotFound == HTTPException(404, "Train not found")

\* line 223
NoSeats == HTTPException(400, "No seats available")

\* line 264
BookingNotFound == Response(404, "Booking not found", NoBooking, 0, {})

\* an error raised by psycopg2 while a statement or the commit executes
Psycopg2Error == [kind |-> "psycopg2.Error", status_code |-> 0,
                  detail |-> "psycopg2.Error"]

\* str(e) at line 240: starlette's HTTPException prints "<status>: <detail>",
\* any other exception prints its message
Str(e) ==
    IF e.kind = "HTTPException"
    THEN ToString(e.status_code) \o ": " \o e.detail
    ELSE e.detail

\* lines 31-36: psycopg2.connect fails and get_db_connection raises
ConnectFailed == Response(500, "Database connection failed", NoBooking, 0, {})

\* requests are numbered in their order of arrival
Arrives(p) == pc[p] = "idle" /\ (IF p = 1 THEN TRUE ELSE pc[p - 1] # "idle")

\* NOW() of request p's transaction: the time its first statement was sent,
\* counted in requests arrived
Now(p) == p

\* ----------------------------------------------------------------- queries
\* SELECT id, total_seats FROM trains WHERE id = %s   (lines 197-206)
SelectTrain(train_id) ==
    {[id |-> t.id, total_seats |-> t.total_seats] : t \in {x \in trains : x.id = train_id}}

\* the rows of bookings transaction p sees: the committed ones and its own
\* uncommitted one
VisibleBookings(p) ==
    bookings \cup (IF new_booking[p] = NoBooking THEN {} ELSE {new_booking[p]})

\* mutant: the COUNT without its WHERE train_id = %s
CountBookedSeats_AllTrains(p, train_id) == Cardinality(VisibleBookings(p))

\* SELECT COUNT(*) FROM bookings WHERE train_id = %s   (lines 212-220)
CountBookedSeats(p, train_id) ==
    Cardinality({b \in VisibleBookings(p) : b.train_id = train_id})

\* mutant: the SELECT without FOR UPDATE, which waits for nobody
LockAvailable_NoForUpdate(p, train_id) == TRUE

\* mutant: one lock for the whole table instead of one per row
LockAvailable_TableLock(p, train_id) == \A t \in TrainIds : rowLock[t] \in {0, p}

\* the row lock FOR UPDATE asks for is free, or already this transaction's
LockAvailable(p, train_id) == rowLock[train_id] \in {0, p}

\* the row locks once transaction p has ended
ReleaseLocks(p) == [t \in TrainIds |-> IF rowLock[t] = p THEN 0 ELSE rowLock[t]]

\* -------------------------------------------------------------------- init
Init ==
    /\ trains = {}
    /\ bookings = {}
    /\ booking_seq = 0
    /\ rowLock = [t \in TrainIds |-> 0]
    /\ pc = [p \in Reqs |-> "idle"]
    /\ req = [p \in Reqs |-> NoReq]
    /\ train = [p \in Reqs |-> NoTrain]
    /\ booked_seats = [p \in Reqs |-> 0]
    /\ new_booking = [p \in Reqs |-> NoBooking]
    /\ exc = [p \in Reqs |-> NoExc]
    /\ resp = [p \in Reqs |-> NoResp]

\* ------------------------------------------------------- POST /trains
\* add_train: INSERT INTO trains ... RETURNING, then commit.  The id is the
\* next value of the table's sequence.  (Its error path rolls the insert
\* back and leaves both tables as they were.)  total_seats is drawn from
\* the positive capacities, 1..MaxSeats.
add_train(route, total_seats) ==
    /\ Cardinality(trains) < MaxTrains
    /\ trains' = trains \cup {[id |-> Cardinality(trains) + 1, route |-> route,
                               total_seats |-> total_seats]}
    /\ UNCHANGED <<bookings, booking_seq, rowLock, pc, req, resp>>
    /\ UNCHANGED txVars

\* ------------------------------------------------------- the requests
BookingRequest(user_id, train_id, seat_number) ==
    [op |-> "book_seat", user_id |-> user_id, train_id |-> train_id,
     seat_number |-> seat_number, booking_id |-> 0, route |-> 0]

AvailabilityRequest(route) ==
    [op |-> "get_seat_availability", user_id |-> 0, train_id |-> 0,
     seat_number |-> 0, booking_id |-> 0, route |-> route]

DetailsRequest(booking_id, user_id) ==
    [op |-> "get_booking_details", user_id |-> user_id, train_id |-> 0,
     seat_number |-> 0, booking_id |-> booking_id, route |-> 0]

Requests ==
    {BookingRequest(u, t, s) : u \in Users, t \in TrainIds, s \in SeatNos}
    \cup {AvailabilityRequest(r) : r \in AskedRoutes}
    \cup {DetailsRequest(b, u) : b \in BookingIds, u \in Users}

\* lines 166, 189, 248 with 31-36: get_db_connection raises
\* HTTPException(500) before the handler's try block is entered
connect_failed(p, request) ==
    /\ Arrives(p)
    /\ req' = [req EXCEPT ![p] = request]
    /\ pc' = [pc EXCEPT ![p] = "done"]
    /\ resp' = [resp EXCEPT ![p] = ConnectFailed]
    /\ UNCHANGED dbVars
    /\ UNCHANGED txVars

\* ------------------------------------------------------- POST /availability
\* mutant: a dirty read, which counts the uncommitted rows too
AvailableSeats_Dirty(t) ==
    t.total_seats - Cardinality({b \in bookings \cup {new_booking[p] : p \in Reqs} :
                                    b.train_id = t.id})

\* t.total_seats - COALESCE(COUNT(b.id), 0) over the committed bookings
\* joined to train t   (lines 172-177)
AvailableSeats(t) ==
    t.total_seats - Cardinality({b \in bookings : b.train_id = t.id})

\* mutant: JOIN where the code has LEFT JOIN, which drops the trains that
\* have no booking
SelectAvailability_InnerJoin(route) ==
    {[id |-> t.id, route |-> t.route, total_seats |-> t.total_seats,
      available_seats |-> AvailableSeats(t)] :
        t \in {x \in trains : x.route = route
                                /\ \E b \in bookings : b.train_id = x.id}}

\* mutant: the SELECT without its WHERE t.source = %s AND t.destination = %s
SelectAvailability_AllRoutes(route) ==
    {[id |-> t.id, route |-> t.route, total_seats |-> t.total_seats,
      available_seats |-> AvailableSeats(t)] : t \in trains}

\* lines 170-181: the trains of the route, each with its available_seats
SelectAvailability(route) ==
    {[id |-> t.id, route |-> t.route, total_seats |-> t.total_seats,
      available_seats |-> AvailableSeats(t)] : t \in {x \in trains : x.route = route}}

\* lines 165-185: one SELECT, returned as {"trains": trains}
get_seat_availability(p, route) ==
    /\ Arrives(p)
    /\ req' = [req EXCEPT ![p] = AvailabilityRequest(route)]
    /\ resp' = [resp EXCEPT ![p] =
                   Response(200, "", NoBooking, 0, SelectAvailability(route))]
    /\ pc' = [pc EXCEPT ![p] = "done"]
    /\ UNCHANGED dbVars
    /\ UNCHANGED txVars

\* ------------------------------------------------------- GET /bookings/{id}
\* mutant: a dirty read, which sees the uncommitted rows too
SelectBookingDetails_Dirty(booking_id, user_id) ==
    UNION {{[booking |-> b, route |-> t.route] :
               t \in {x \in trains : x.id = b.train_id}} :
           b \in {x \in bookings \cup {new_booking[p] : p \in Reqs} :
                     x.id = booking_id /\ x.user_id = user_id}}

\* mutant: the SELECT without its AND b.user_id = %s
SelectBookingDetails_AnyUser(booking_id, user_id) ==
    UNION {{[booking |-> b, route |-> t.route] :
               t \in {x \in trains : x.id = b.train_id}} :
           b \in {x \in bookings : x.id = booking_id}}

\* lines 252-261: the committed booking of that id and that user, joined
\* to its train
SelectBookingDetails(booking_id, user_id) ==
    UNION {{[booking |-> b, route |-> t.route] :
               t \in {x \in trains : x.id = b.train_id}} :
           b \in {x \in bookings : x.id = booking_id /\ x.user_id = user_id}}

\* lines 261-266: the row, or HTTPException(404)
BookingDetails(booking_id, user_id) ==
    LET rows == SelectBookingDetails(booking_id, user_id) IN
    IF rows = {}
    THEN BookingNotFound
    ELSE LET row == CHOOSE r \in rows : TRUE IN
         Response(200, "", row.booking, row.route, {})

get_booking_details(p, booking_id, user_id) ==
    /\ Arrives(p)
    /\ req' = [req EXCEPT ![p] = DetailsRequest(booking_id, user_id)]
    /\ resp' = [resp EXCEPT ![p] = BookingDetails(booking_id, user_id)]
    /\ pc' = [pc EXCEPT ![p] = "done"]
    /\ UNCHANGED dbVars
    /\ UNCHANGED txVars

\* ------------------------------------------------------- POST /bookings
\* lines 188-194: the request arrives with its body and its token's user,
\* get_db_connection opens a connection, autocommit goes off
book_seat_begin(p, user_id, train_id, seat_number) ==
    /\ Arrives(p)
    /\ req' = [req EXCEPT ![p] = BookingRequest(user_id, train_id, seat_number)]
    /\ pc' = [pc EXCEPT ![p] = "select_train"]
    /\ UNCHANGED dbVars
    /\ UNCHANGED txVars
    /\ UNCHANGED resp

\* mutant: autocommit left on, so the INSERT is already committed when the
\* rollback comes
RollbackBookings_Autocommit(p) == VisibleBookings(p)

\* what conn.rollback() does to table bookings: the uncommitted row is gone
\* (a conn.commit() that raised has committed nothing)
RollbackBookings(p) == bookings

\* mutant: an except block that ends without ending the transaction
RollbackLocks_Skipped(p) == rowLock

\* what conn.rollback() does to the row locks
RollbackLocks(p) == ReleaseLocks(p)

\* mutant: an except block that gives store errors a status of their own
ExceptStatus_Transient(e) == IF e.kind = "psycopg2.Error" THEN 503 ELSE 400

\* the status code of the response the except block raises (line 240)
ExceptStatus(e) == 400

\* lines 238-244: exception e is caught, conn.rollback() drops the
\* uncommitted row and releases the lock, and HTTPException(400, str(e)) is
\* raised whatever e was
Except(p, e) ==
    /\ exc' = [exc EXCEPT ![p] = e]
    /\ bookings' = RollbackBookings(p)
    /\ rowLock' = RollbackLocks(p)
    /\ new_booking' = [new_booking EXCEPT ![p] = NoBooking]
    /\ resp' = [resp EXCEPT ![p] =
                   Response(ExceptStatus(e), Str(e), NoBooking, 0, {})]
    /\ pc' = [pc EXCEPT ![p] = "done"]
    /\ UNCHANGED <<trains, booking_seq, req, train>>

\* mutant: the SELECT fetches the row and locks nothing
book_seat_select_train_PlainSelect(p) ==
    /\ pc[p] = "select_train"
    /\ LET rows == SelectTrain(req[p].train_id) IN
       IF rows = {}
       THEN /\ Except(p, TrainNotFound)
            /\ UNCHANGED booked_seats
       ELSE /\ train' = [train EXCEPT ![p] = CHOOSE t \in rows : TRUE]
            /\ pc' = [pc EXCEPT ![p] = "count"]
            /\ UNCHANGED <<trains, bookings, booking_seq, rowLock, req, resp>>
            /\ UNCHANGED <<booked_seats, new_booking, exc>>

\* lines 197-209: SELECT ... FOR UPDATE waits while another transaction
\* holds the row's lock, then locks the row and fetches it; with no such
\* row it locks nothing and HTTPException(404) is raised
book_seat_select_train(p) ==
    /\ pc[p] = "select_train"
    /\ LET rows == SelectTrain(req[p].train_id) IN
       IF rows = {}
       THEN /\ Except(p, TrainNotFound)
            /\ UNCHANGED booked_seats
       ELSE /\ LockAvailable(p, req[p].train_id)
            /\ rowLock' = [rowLock EXCEPT ![req[p].train_id] = p]
            /\ train' = [train EXCEPT ![p] = CHOOSE t \in rows : TRUE]
            /\ pc' = [pc EXCEPT ![p] = "count"]
            /\ UNCHANGED <<trains, bookings, booking_seq, req, resp>>
            /\ UNCHANGED <<booked_seats, new_booking, exc>>

\* mutant: the last seat is never sold
NoSeatsAvailable_TooEarly(booked, total_seats) == booked + 1 >= total_seats

\* mutant: > where the code has >=
NoSeatsAvailable_OffByOne(booked, total_seats) == booked > total_seats

\* line 222: no seat is left
NoSeatsAvailable(booked, total_seats) == booked >= total_seats

\* lines 212-223: count the train's bookings, raise HTTPException(400)
\* when none is left
book_seat_count(p) ==
    /\ pc[p] = "count"
    /\ LET n == CountBookedSeats(p, req[p].train_id) IN
       /\ booked_seats' = [booked_seats EXCEPT ![p] = n]
       /\ IF NoSeatsAvailable(n, train[p].total_seats)
          THEN Except(p, NoSeats)
          ELSE /\ pc' = [pc EXCEPT ![p] = "insert"]
               /\ UNCHANGED dbVars
               /\ UNCHANGED <<req, resp, train, new_booking, exc>>

\* mutant: user_id and seat_number in each other's place in the VALUES
NewBooking_ArgsSwapped(p) ==
    [id |-> booking_seq + 1, user_id |-> req[p].seat_number,
     train_id |-> req[p].train_id, seat_number |-> req[p].user_id,
     booking_date |-> Now(p)]

\* lines 228-232: the row of the INSERT, its id the sequence's next value
NewBooking(p) ==
    [id |-> booking_seq + 1, user_id |-> req[p].user_id,
     train_id |-> req[p].train_id, seat_number |-> req[p].seat_number,
     booking_date |-> Now(p)]

\* lines 226-234: INSERT INTO bookings ... RETURNING; the row stays private
\* to the transaction until the commit, the sequence value is taken for good
book_seat_insert(p) ==
    /\ pc[p] = "insert"
    /\ booking_seq' = booking_seq + 1
    /\ new_booking' = [new_booking EXCEPT ![p] = NewBooking(p)]
    /\ pc' = [pc EXCEPT ![p] = "commit"]
    /\ UNCHANGED <<trains, bookings, rowLock, req, resp>>
    /\ UNCHANGED <<train, booked_seats, exc>>

\* mutant: an upsert keyed by the train, which replaces the train's rows
CommitBookings_Overwrite(p) ==
    {b \in bookings : b.train_id # new_booking[p].train_id} \cup {new_booking[p]}

\* mutant: an insert that skips a row whose user, train and seat are
\* already booked (ON CONFLICT DO NOTHING)
CommitBookings_Dedup(p) ==
    IF \E b \in bookings : /\ b.user_id = new_booking[p].user_id
                            /\ b.train_id = new_booking[p].train_id
                            /\ b.seat_number = new_booking[p].seat_number
    THEN bookings
    ELSE bookings \cup {new_booking[p]}

\* mutant: a commit that ends the transaction without publishing the row
CommitBookings_Lost(p) == bookings

\* what conn.commit() does to table bookings
CommitBookings(p) == bookings \cup {new_booking[p]}

\* mutant: a lock that outlives the transaction (a session-level lock)
CommitLocks_Kept(p) == rowLock

\* what conn.commit() does to the row locks
CommitLocks(p) == ReleaseLocks(p)

\* lines 236-237: conn.commit() publishes the row and releases the lock in
\* one step of the store, then the handler returns the booking
book_seat_commit(p) ==
    /\ pc[p] = "commit"
    /\ bookings' = CommitBookings(p)
    /\ rowLock' = CommitLocks(p)
    /\ resp' = [resp EXCEPT ![p] =
                   Response(200, "Booking successful", new_booking[p], 0, {})]
    /\ new_booking' = [new_booking EXCEPT ![p] = NoBooking]
    /\ pc' = [pc EXCEPT ![p] = "done"]
    /\ UNCHANGED <<trains, booking_seq, req>>
    /\ UNCHANGED <<train, booked_seats, exc>>

\* line 238: a statement of the try block (the SELECT ... FOR UPDATE, also
\* while it waits; the COUNT; the INSERT; the commit) raises a psycopg2
\* error, which the except block handles
book_seat_error(p) ==
    /\ pc[p] \in {"select_train", "count", "insert", "commit"}
    /\ Except(p, Psycopg2Error)
    /\ UNCHANGED booked_seats

book_seat(p) ==
    \/ \E u \in Users, t \in TrainIds, s \in SeatNos : book_seat_begin(p, u, t, s)
    \/ book_seat_select_train(p)
    \/ book_seat_count(p)
    \/ book_seat_insert(p)
    \/ book_seat_commit(p)
    \/ book_seat_error(p)

Next ==
    \/ \E r \in Routes, n \in 1..MaxSeats : add_train(r, n)
    \/ \E p \in Reqs : book_seat(p)
    \/ \E p \in Reqs, request \in Requests : connect_failed(p, request)
    \/ \E p \in Reqs, r \in AskedRoutes : get_seat_availability(p, r)
    \/ \E p \in Reqs, b \in BookingIds, u \in Users : get_booking_details(p, b, u)

Spec == Init /\ [][Next]_vars

\* ================================================================ claims
IsBooking(p) == req[p].op = "book_seat"
InFlight(p) == pc[p] \in {"select_train", "count", "insert", "commit"}
Finishes(p) == pc[p] # "done" /\ pc'[p] = "done"
Booked(train_id) == {b \in bookings : b.train_id = train_id}
Granted(p) == IsBooking(p) /\ pc[p] = "done" /\ resp[p].status = 200
\* request p was turned away because the train was full
Rejected(p) ==
    /\ IsBooking(p) /\ pc[p] = "done" /\ exc[p] = NoSeats
    /\ resp[p].status = 400 /\ resp[p].booking = NoBooking
\* request p ended on a failure of the store or of the connection to it
StoreFailed(p) ==
    IsBooking(p) /\ pc[p] = "done"
    /\ (exc[p] = Psycopg2Error \/ resp[p] = ConnectFailed)

\* C1: no overbooking.  In every reachable state every train has at most
\* total_seats committed bookings.
C1_NoOverbooking ==
    \A t \in trains : Cardinality(Booked(t.id)) <= t.total_seats

\* C1 witness: a train is full and a later request for it was turned away.
C1_Witness ==
    \E t \in trains, p \in Reqs :
        /\ Cardinality(Booked(t.id)) = t.total_seats
        /\ Rejected(p) /\ req[p].train_id = t.id

\* the booking requests made for train t, once the train existed
CallsOn(t) ==
    {p \in Reqs : IsBooking(p) /\ req[p].train_id = t.id /\ pc[p] # "idle"
                  /\ exc[p] # TrainNotFound}

\* C2: for a train of capacity C and N > C booking requests for it, all run
\* to completion with the store working, exactly C of them got a booking
\* and each of the other N - C was rejected with the 400 of "No seats
\* available".
C2_ExactlyCapacityGranted ==
    \A t \in trains :
        LET calls == CallsOn(t) IN
        (/\ \A p \in calls : pc[p] = "done" /\ ~StoreFailed(p)
         /\ Cardinality(calls) > t.total_seats)
        => /\ Cardinality({p \in calls : Granted(p)}) = t.total_seats
           /\ \A p \in calls : Granted(p) \/ Rejected(p)
           /\ {resp[p].booking : p \in {q \in calls : Granted(q)}} = Booked(t.id)

\* C2 witness: three completed requests for a train of two seats, and also
\* the spec's scenario shape, more calls than seats, with a rejection.
C2_Witness ==
    \E t \in trains :
        /\ t.total_seats = 2
        /\ Cardinality(CallsOn(t)) = 3
        /\ \A p \in CallsOn(t) : pc[p] = "done" /\ ~StoreFailed(p)
        /\ \E p \in CallsOn(t) : Rejected(p)

\* C3: commit atomicity.  Table bookings changes only in the step in which
\* a booking request commits and returns 200, and then by exactly the row
\* it returns; a step in which a request fails leaves the table as it was.
C3_CommitAtomicity ==
    [][/\ \A p \in Reqs :
             (Finishes(p) /\ resp'[p].status # 200) => bookings' = bookings
       /\ bookings' # bookings =>
             \E p \in Reqs :
                 /\ pc[p] = "commit" /\ Finishes(p) /\ resp'[p].status = 200
                 /\ bookings' = bookings \cup {resp'[p].booking}
                 /\ resp'[p].booking = new_booking[p]]_vars

\* C3 witness: a request failed after its INSERT (its sequence value is
\* spent, its row is nowhere).
C3_Witness ==
    /\ \E p \in Reqs : IsBooking(p) /\ pc[p] = "done" /\ exc[p] = Psycopg2Error
                         /\ resp[p].status = 400
    /\ \A p \in Reqs : ~InFlight(p)
    /\ booking_seq > Cardinality(bookings)

\* C4: ownership isolation.  get_booking_details answers from the caller's
\* own committed bookings alone: the booking of that id when the caller
\* owns it, and otherwise one and the same 404 response, whether the id
\* belongs to another user or to nobody.
C4_OwnershipIsolation ==
    [][\A p \in Reqs :
          (Finishes(p) /\ req'[p].op = "get_booking_details"
              /\ resp'[p] # ConnectFailed)
          => LET own == {b \in bookings : b.id = req'[p].booking_id
                                          /\ b.user_id = req'[p].user_id}
             IN IF own = {}
                THEN resp'[p] = BookingNotFound
                ELSE resp'[p].status = 200 /\ resp'[p].booking \in own]_vars

\* C4 witness: a booking its owner was shown (request q) and another user
\* asking later (request p) was refused.
C4_Witness ==
    \E q \in Reqs, p \in Reqs :
        /\ q < p
        /\ req[q].op = "get_booking_details" /\ req[p].op = "get_booking_details"
        /\ req[q].booking_id = req[p].booking_id
        /\ req[q].user_id # req[p].user_id
        /\ resp[q].status = 200
        /\ resp[p] = BookingNotFound

\* C5: read consistency.  An availability query counts, for each train it
\* lists, exactly the bookings committed before it (every one of them, and
\* none that is not committed), and a query for a committed booking by its
\* owner returns it.
C5_ReadConsistency ==
    [][\A p \in Reqs :
          /\ (Finishes(p) /\ req'[p].op = "get_seat_availability"
                 /\ resp'[p] # ConnectFailed)
             => /\ \A t \in trains : t.route = req'[p].route
                       => \E row \in resp'[p].trains : row.id = t.id
                /\ \A row \in resp'[p].trains :
                       \E t \in trains :
                           /\ t.id = row.id
                           /\ row.available_seats =
                                 t.total_seats - Cardinality(Booked(t.id))
          /\ (Finishes(p) /\ req'[p].op = "get_booking_details"
                 /\ resp'[p] # ConnectFailed)
             => \A b \in bookings :
                    (b.id = req'[p].booking_id /\ b.user_id = req'[p].user_id)
                    => resp'[p].status = 200 /\ resp'[p].booking = b]_vars

\* C5 witness: an availability answer that shows a seat taken, and then a
\* later details query in which the owner got a booking back.
C5_Witness ==
    \E q \in Reqs, p \in Reqs :
        /\ q < p
        /\ req[q].op = "get_seat_availability"
        /\ \E row \in resp[q].trains : row.available_seats = row.total_seats - 1
        /\ req[p].op = "get_booking_details" /\ resp[p].status = 200

\* C6 (the claim as stated): a booking request for a train that is not in
\* table trains is answered with the not-found status, 404, and adds no
\* booking.
C6_NotFoundReported ==
    \A p \in Reqs :
        (IsBooking(p) /\ pc[p] = "done" /\ exc[p] = TrainNotFound)
        => resp[p].status = 404 /\ resp[p].booking = NoBooking

\* C7 (the claim as stated): an availability query about a route no train
\* serves never returns a successful result.
C7_NotFoundForUnknown ==
    \A p \in Reqs :
        (req[p].op = "get_seat_availability" /\ pc[p] = "done"
            /\ {t \in trains : t.route = req[p].route} = {})
        => resp[p].status # 200

\* C7 (amended): an availability query never fails with 404: it returns 200
\* (or 500 when the connection fails), and for a route that no train serves
\* the 200 carries an empty list; every train it lists exists and serves
\* the route asked about.
C7_EmptyListForUnknown ==
    \A p \in Reqs :
        (req[p].op = "get_seat_availability" /\ pc[p] = "done")
        => /\ resp[p].status \in {200, 500}
           /\ resp[p].status = 500 => resp[p] = ConnectFailed
           /\ {t \in trains : t.route = req[p].route} = {} => resp[p].trains = {}
           /\ \A row \in resp[p].trains :
                  \E t \in trains : t.id = row.id /\ t.route = req[p].route

\* C7 witness: trains exist, and a query about a route none of them serves
\* got 200 and an empty list.
C7_Witness ==
    \E p \in Reqs :
        /\ req[p].op = "get_seat_availability" /\ pc[p] = "done"
        /\ {t \in trains : t.route = req[p].route} = {}
        /\ resp[p].status = 200 /\ resp[p].trains = {}

\* the next statement of booking request p
Step(p) ==
    \/ book_seat_select_train(p)
    \/ book_seat_count(p)
    \/ book_seat_insert(p)
    \/ book_seat_commit(p)

\* C8: per-resource parallelism.  A booking transaction can always take its
\* next step, except while it waits at SELECT ... FOR UPDATE for a lock
\* that another transaction holds on the row of the same train.
C8_PerResourceParallelism ==
    \A p \in Reqs :
        (InFlight(p) /\ ~ENABLED Step(p))
        => /\ pc[p] = "select_train"
           /\ rowLock[req[p].train_id] \notin {0, p}

\* C8 witness: a request is about to lock a train whose lock is free while
\* another request holds the lock of another train.
C8_Witness ==
    \E p \in Reqs, q \in Reqs :
        /\ pc[p] = "select_train" /\ SelectTrain(req[p].train_id) # {}
        /\ rowLock[req[p].train_id] = 0
        /\ \E t \in TrainIds : t # req[p].train_id /\ rowLock[t] = q

\* C9: a request that has finished, with any outcome, holds no row lock.
C9_HoldReleased ==
    \A p \in Reqs : pc[p] \in {"idle", "done"} => \A t \in TrainIds : rowLock[t] # p

\* C9 witness: finished requests that had locked a train, one that
\* committed and one that failed.
C9_Witness ==
    /\ \E p \in Reqs : Granted(p)
    /\ \E p \in Reqs : IsBooking(p) /\ pc[p] = "done" /\ train[p] # NoTrain
                         /\ resp[p].status = 400

\* what a booking request gets from the store when it is the only one
\* running: reserve of the spec, run in one piece on the committed tables
SerialOutcome(request) ==
    LET rows == {t \in trains : t.id = request.train_id} IN
    IF rows = {} THEN "NotFound"
    ELSE IF \E t \in rows : Cardinality(Booked(t.id)) >= t.total_seats
         THEN "CapacityExceeded"
         ELSE "Grant"

\* C10: per-resource serializability.  Each transaction that resolved its
\* train ends (commits or aborts) with the outcome that the request, run
\* alone at that moment on the committed tables, would have: a commit only
\* when a seat is free, adding its one row and keeping count <= capacity, a
\* capacity rejection only when the train is full, both leaving the
\* bookings of the other transactions as they are.  So the concurrent
\* execution equals the one-at-a-time execution in the order of the
\* commits and aborts.
C10_Serializable ==
    [][\A p \in Reqs :
          (IsBooking(p) /\ Finishes(p) /\ train[p] # NoTrain)
          => \/ /\ resp'[p].status = 200
                /\ SerialOutcome(req[p]) = "Grant"
                /\ resp'[p].booking.train_id = req[p].train_id
                /\ resp'[p].booking.user_id = req[p].user_id
                /\ resp'[p].booking \notin bookings
                /\ bookings' = bookings \cup {resp'[p].booking}
                /\ Cardinality({b \in bookings' : b.train_id = req[p].train_id})
                      <= train[p].total_seats
             \/ /\ exc'[p] = NoSeats
                /\ SerialOutcome(req[p]) = "CapacityExceeded"
                /\ bookings' = bookings
             \/ /\ exc'[p] = Psycopg2Error
                /\ bookings' = bookings]_vars

\* C10 witness: on one train, a request that arrived first was rejected
\* and one that arrived after it got the seat: the two ran concurrently
\* and the order of their commits is not the order of their arrival.
C10_Witness ==
    \E q \in Reqs, p \in Reqs :
        /\ q < p
        /\ req[q].train_id = req[p].train_id
        /\ Rejected(q) /\ Granted(p)

\* the statements of book_seat in the order the code runs them
Rank(state) ==
    CASE state = "idle" -> 0
      [] state = "select_train" -> 1
      [] state = "count" -> 2
      [] state = "insert" -> 3
      [] state = "commit" -> 4
      [] OTHER -> 5

\* C11 (the claim as stated): contention the store reports to a booking
\* request is surfaced as a transient failure of its own kind, not as the
\* 400 that answers the validation failures.
C11_SurfacedAsConflict ==
    \A p \in Reqs :
        (IsBooking(p) /\ pc[p] = "done" /\ exc[p] = Psycopg2Error)
        => resp[p].status # 400

\* C11 (amended): book_seat never retries and never loops.  Every step of
\* a request moves it forward in the handler, so each statement runs at
\* most once; the first error the store raises (a lock-wait timeout among
\* them) ends the request in that step, rolled back, with status 400 and
\* the error's text, and no booking.
C11_NoRetry ==
    [][\A p \in Reqs :
          /\ pc'[p] # pc[p] => Rank(pc'[p]) > Rank(pc[p])
          /\ (InFlight(p) /\ exc'[p] = Psycopg2Error)
             => /\ pc'[p] = "done"
                /\ resp'[p] = Response(400, "psycopg2.Error", NoBooking, 0, {})
                /\ bookings' = bookings
                /\ \A t \in TrainIds : rowLock'[t] # p]_vars

\* C11 witness: a request that waited for a train's lock while another
\* request's transaction held it ended on a store error, and the holder is
\* still in its transaction.
C11_Witness ==
    \E p \in Reqs, q \in Reqs :
        /\ IsBooking(p) /\ pc[p] = "done" /\ exc[p] = Psycopg2Error
        /\ train[p] = NoTrain /\ resp[p].status = 400
        /\ q < p /\ InFlight(q) /\ rowLock[req[p].train_id] = q

\* C12: grants are append-only.  No step of any operation removes or
\* changes a committed booking: every row of table bookings is still in
\* it, field for field, after the step, and no second row takes its id.
C12_AppendOnly ==
    [][/\ bookings \subseteq bookings'
       /\ \A b \in bookings, c \in bookings' : c.id = b.id => c = b]_vars

\* C12 witness: two committed bookings of one train, and a details query,
\* arrived after both booking requests, that showed the older one.
C12_Witness ==
    \E p \in Reqs, b \in bookings, c \in bookings :
        /\ b.id < c.id /\ b.train_id = c.train_id
        /\ req[p].op = "get_booking_details"
        /\ resp[p].status = 200 /\ resp[p].booking = b
        /\ \E q \in Reqs : q < p /\ Granted(q) /\ resp[q].booking = c

\* no booking request is inside its transaction
Quiet == \A q \in Reqs : ~InFlight(q)

\* the requests served one after another: a request arrives only when no
\* booking request is inside its transaction
SequentialNext ==
    \/ \E r \in Routes, n \in 1..MaxSeats : add_train(r, n)
    \/ \E p \in Reqs, u \in Users, t \in TrainIds, s \in SeatNos :
          Quiet /\ book_seat_begin(p, u, t, s)
    \/ \E p \in Reqs : book_seat_select_train(p)
    \/ \E p \in Reqs : book_seat_count(p)
    \/ \E p \in Reqs : book_seat_insert(p)
    \/ \E p \in Reqs : book_seat_commit(p)
    \/ \E p \in Reqs : book_seat_error(p)
    \/ \E p \in Reqs, request \in Requests : Quiet /\ connect_failed(p, request)
    \/ \E p \in Reqs, r \in AskedRoutes : Quiet /\ get_seat_availability(p, r)
    \/ \E p \in Reqs, b \in BookingIds, u \in Users :
          Quiet /\ get_booking_details(p, b, u)

SpecSequential == Init /\ [][SequentialNext]_vars

\* C13: booking requests for a train of capacity C, made one after another
\* from the moment the train exists, with the store working: each of the
\* first C gets a booking, the ids of the bookings returned are pairwise
\* distinct, and every request after the C-th is rejected with the 400 of
\* "No seats available".
C13_SequentialCalls ==
    /\ \A t \in trains : \A p \in CallsOn(t) :
          (/\ pc[p] = "done"
           /\ \A q \in CallsOn(t) : q <= p => ~StoreFailed(q))
          => IF Cardinality({q \in CallsOn(t) : q <= p}) <= t.total_seats
             THEN Granted(p) /\ resp[p].booking \in Booked(t.id)
             ELSE Rejected(p)
    /\ \A p \in Reqs, q \in Reqs :
          (Granted(p) /\ Granted(q) /\ p # q)
          => resp[p].booking.id # resp[q].booking.id

\* C13 witness: the spec's scenario, a train of two seats and three
\* requests in a row: two bookings with different ids, then a rejection.
C13_Witness ==
    \E t \in trains :
        /\ t.total_seats = 2
        /\ CallsOn(t) = Reqs
        /\ Granted(1) /\ Granted(2) /\ Rejected(3)
        /\ resp[1].booking.id # resp[2].booking.id

C15_RecheckUnderHold ==
    [][\A p \in Reqs :
          /\ (pc[p] = "count" /\ pc'[p] # "count" /\ exc'[p] # Psycopg2Error)
             => /\ rowLock[req[p].train_id] = p
                /\ booked_seats'[p] = Cardinality(Booked(req[p].train_id))
                /\ pc'[p] = "insert" <=> booked_seats'[p] < train[p].total_seats
          /\ pc'[p] \in {"insert", "commit"}
             => /\ rowLock'[req'[p].train_id] = p
                /\ booked_seats'[p] =
                      Cardinality({b \in bookings' : b.train_id = req'[p].train_id})
                /\ booked_seats'[p] < train'[p].total_seats]_vars

\* C15 witness: an availability answer that showed every seat of a train
\* free, and a booking request that arrived later, counted one booking
\* under the lock and goes on with that count.
C15_Witness ==
    \E q \in Reqs, p \in Reqs :
        /\ q < p
        /\ req[q].op = "get_seat_availability"
        /\ \E row \in resp[q].trains :
              row.id = req[p].train_id /\ row.available_seats = row.total_seats
        /\ pc[p] \in {"insert", "commit"}
        /\ booked_seats[p] = 1
        /\ rowLock[req[p].train_id] = p

\* C16: commit and release of the lock are one step for the other
\* transactions.  In the step in which a booking request that succeeds
\* gives up the lock of its train's row, its booking becomes a committed
\* row, which the COUNT of every other transaction reads; and in no state
\* has a request that was granted a booking left the lock while the booking
\* is missing from the committed rows.
C16_CommitReleasesAtomically ==
    [][\A p \in Reqs :
          /\ \A t \in TrainIds :
                (rowLock[t] = p /\ rowLock'[t] # p /\ resp'[p].status = 200)
                => /\ new_booking[p] # NoBooking
                   /\ new_booking[p].train_id = t
                   /\ new_booking[p] \notin bookings
                   /\ new_booking[p] \in bookings'
                   /\ \A q \in Reqs \ {p} :
                         new_booking[p] \in {b \in bookings' \cup {new_booking'[q]} :
                                                b.train_id = t}
          /\ (IsBooking(p)' /\ pc'[p] = "done" /\ resp'[p].status = 200)
             => /\ rowLock'[req'[p].train_id] # p
                /\ resp'[p].booking \in bookings']_vars

\* C16 witness: a request was granted a booking and has released the lock,
\* another request has taken the lock of the same row since and is about to
\* count, and the booking is among the rows its COUNT reads.
C16_Witness ==
    \E p \in Reqs, q \in Reqs :
        /\ Granted(p)
        /\ IsBooking(q) /\ pc[q] = "count"
        /\ req[q].train_id = req[p].train_id
        /\ rowLock[req[q].train_id] = q
        /\ resp[p].booking \in VisibleBookings(q)
        /\ CountBookedSeats(q, req[q].train_id) = 1

\* C17: the two reads see committed rows only.  A booking that
\* get_booking_details returns is a committed row at the time of the read
\* and not the uncommitted row of any transaction, an availability row
\* counts the committed bookings of its train and none that is uncommitted,
\* and a booking once returned stays committed (so it was not rolled back).
C17_ReadsCommittedOnly ==
    [][\A p \in Reqs :
          /\ (Finishes(p) /\ req'[p].op = "get_booking_details"
                /\ resp'[p].status = 200)
             => /\ resp'[p].booking \in bookings
                /\ \A q \in Reqs :
                      (new_booking[q] # NoBooking /\ new_booking[q] \notin bookings)
                      => resp'[p].booking # new_booking[q]
          /\ (Finishes(p) /\ req'[p].op = "get_seat_availability")
             => \A row \in resp'[p].trains :
                   row.total_seats - row.available_seats
                      = Cardinality({b \in bookings : b.train_id = row.id})
          /\ (pc[p] = "done" /\ req[p].op = "get_booking_details"
                /\ resp[p].status = 200)
             => resp[p].booking \in bookings']_vars

\* C17 witness: a transaction has inserted booking 1 and not yet committed;
\* booking 2, inserted later for the other train, is committed; and an
\* availability answer that counts booking 2 shows every seat of the first
\* transaction's train free.
C17_Witness ==
    \E p \in Reqs, q \in Reqs, g \in Reqs :
        /\ pc[q] = "commit" /\ new_booking[q].id = 1
        /\ Granted(g) /\ resp[g].booking.id = 2
        /\ req[p].op = "get_seat_availability" /\ pc[p] = "done"
        /\ \E row \in resp[p].trains :
              /\ row.id = req[g].train_id
              /\ row.available_seats = row.total_seats - 1
        /\ \E row \in resp[p].trains :
              /\ row.id = req[q].train_id
              /\ row.available_seats = row.total_seats

\* the booking requests alone, under a fair schedule: a booking request
\* whose next statement stays able to run does run it (the worker is
\* scheduled, and the store hands a freed row lock to a waiter)
BookingNext ==
    \/ \E r \in Routes, n \in 1..MaxSeats : add_train(r, n)
    \/ \E p \in Reqs : book_seat(p)

FairSpec == Init /\ [][BookingNext]_vars /\ \A p \in Reqs : WF_vars(Step(p))

\* the row locks request p holds
LocksHeld(p) == {t \in TrainIds : rowLock[t] = p}

C19_AvailabilityComputation ==
    [][\A p \in Reqs :
          (Finishes(p) /\ req'[p].op = "get_seat_availability"
              /\ resp'[p] # ConnectFailed)
          => /\ resp'[p].status = 200
             /\ \A t \in trains :
                   t.route = req'[p].route
                   => /\ Cardinality({row \in resp'[p].trains : row.id = t.id}) = 1
                      /\ \E row \in resp'[p].trains :
                            /\ row.id = t.id
                            /\ row.total_seats = t.total_seats
                            /\ row.available_seats
                                  = t.total_seats - Cardinality(Booked(t.id))
                            /\ Booked(t.id) = {}
                                  => row.available_seats = t.total_seats
             /\ \A row \in resp'[p].trains :
                   \E t \in trains : t.id = row.id /\ t.route = req'[p].route
             /\ trains' = trains
             /\ bookings' = bookings
             /\ booking_seq' = booking_seq
             /\ rowLock' = rowLock]_vars

\* C19 witness: an availability answer with a train that has no booking,
\* at its full total_seats, and a train with a booking, one below.
C19_Witness ==
    \E p \in Reqs :
        /\ req[p].op = "get_seat_availability" /\ pc[p] = "done"
        /\ resp[p].status = 200
        /\ \E row \in resp[p].trains, other \in resp[p].trains :
              /\ row.id # other.id
              /\ row.available_seats = row.total_seats
              /\ Booked(row.id) = {}
              /\ other.available_seats = other.total_seats - 1
              /\ Cardinality(Booked(other.id)) = 1

\* C20: the effect of a successful booking.  The step that answers a
\* book_seat request with 200 adds exactly one row to table bookings, whose
\* user_id is the caller of the token, whose train_id and seat_number are
\* those of the request body and whose id is new; every other booking, the
\* number of bookings of every other train and every train row stay as
\* they were.
C20_GrantFrame ==
    [][\A p \in Reqs :
          (IsBooking(p) /\ Finishes(p) /\ resp'[p].status = 200)
          => LET b == resp'[p].booking IN
             /\ b \notin bookings
             /\ bookings' = bookings \cup {b}
             /\ Cardinality(bookings') = Cardinality(bookings) + 1
             /\ b.user_id = req[p].user_id
             /\ b.train_id = req[p].train_id
             /\ b.seat_number = req[p].seat_number
             /\ \A c \in bookings : c.id # b.id
             /\ \A t \in TrainIds \ {req[p].train_id} :
                   {c \in bookings' : c.train_id = t} = Booked(t)
             /\ trains' = trains]_vars

\* C20 witness: user 2 was granted a booking on a train while the other
\* train had a booking of its own, which is still there, and both train
\* rows are in place.
C20_Witness ==
    \E p \in Reqs :
        /\ Granted(p)
        /\ resp[p].booking.user_id = NumUsers
        /\ resp[p].booking \in bookings
        /\ \E c \in bookings :
              c.train_id # req[p].train_id /\ c.id < resp[p].booking.id
        /\ Cardinality(trains) = MaxTrains
====
